---- MODULE Spec2Model ----
(***************************************************************************)
(* TodoMCPClient (src/clients/todo-client-mcp-python/todoclientmcp.py):    *)
(* the session/transport engine of the todo-mcp client.  One foreground    *)
(* thread issues connect(), call_tool() and list_tools(); disconnect()     *)
(* may run concurrently with it; every connect() starts one _sse_reader    *)
(* thread.  The steps of each thread are the reads and writes of the       *)
(* shared fields session_id, initialized, sse_client, sse_thread,          *)
(* response_queue and stop_event; accesses no other thread can tell apart  *)
(* are taken in one step.                                                  *)
(*                                                                         *)
(* Optional[str] is a sequence of length 0 (None) or 1 (<<s>>); a str is   *)
(* a sequence of tokens.  Network inputs (GET and POST statuses, stream    *)
(* events, timeouts) are chosen with \E.                                   *)
(***************************************************************************)
EXTENDS Naturals, Sequences, FiniteSets

VARIABLES
    session_id,      \* self.session_id : Optional[str]
    initialized,     \* self.initialized
    stop_event,      \* self.stop_event.is_set()
    sse_client,      \* self.sse_client : 0 (None) or the stream it wraps
    sse_thread,      \* self.sse_thread : 0 (None) or the reader thread
    response_queue,  \* self.response_queue (queue.Queue), oldest first
    rd,              \* the _sse_reader threads: reader -> [pc, stream, ev]
    cl,              \* the foreground thread: [pc, op, req, mark, env]
    dc,              \* the thread running disconnect(): its position
    ret,             \* outcome of the foreground thread's last operation
    posts,           \* log of the POSTs issued by _send_request
    dequeued,        \* log of the messages taken from response_queue
    accepted,        \* messages that parse, read with the stop signal unset
    dropped,         \* readers that left the loop on a message that parses
    timedOut,        \* requests whose response wait timed out
    nevents,         \* announcements and messages accepted by the readers so far
    nconn,           \* streams opened by connect() so far
    ncalls,          \* operations the foreground thread has begun so far
    ndisc,           \* disconnect() invocations so far
    sid_by,          \* the stream whose announcement session_id holds (0: none)
    lim,             \* the limits of the run: how many inputs of each kind
    connect_since,   \* connect() was called after the last disconnect() returned
    stop_req         \* the request awaited on an empty queue when disconnect()
                     \* set the stop signal (0: none)

vars == <<session_id, initialized, stop_event, sse_client, sse_thread,
          response_queue, rd, cl, dc, ret, posts, dequeued, accepted, dropped,
          timedOut, nevents, nconn, ncalls, ndisc, sid_by, lim, connect_since,
          stop_req>>

shared == <<session_id, initialized, stop_event, sse_client, sse_thread,
            response_queue, sid_by>>

logs == <<posts, dequeued, accepted, dropped, timedOut>>

counters == <<nevents, nconn, ncalls, ndisc>>

hist == <<lim, connect_since, stop_req>>

(* Bounds of the model: the runs of one connection. *)
MaxConnects == 1
MaxOps == 3
MaxDisconnects == 1
MaxEvents == 3
MaxInputs == 6

Limits == [connects |-> MaxConnects, ops |-> MaxOps, disc |-> MaxDisconnects,
           events |-> MaxEvents, inputs |-> MaxInputs]

(* Bound of the runs checked for what eventually happens. *)
LiveInputs == 5

LiveLimits == [Limits EXCEPT !.inputs = LiveInputs]

(* Bounds of the runs in which connect() and disconnect() are called again *)
(* on a connected client; they count what that first connect() has used.   *)
AgainConnects == 2
AgainOps == 3
AgainDisconnects == 2
AgainEvents == 4
AgainInputs == 6

AgainLimits == [connects |-> AgainConnects, ops |-> AgainOps,
                disc |-> AgainDisconnects, events |-> AgainEvents,
                inputs |-> AgainInputs]

(***************************************************************************)
(* Values                                                                  *)
(***************************************************************************)
None == <<>>

Some(s) == <<s>>

\* Python truthiness of an Optional[str]: None and '' are falsy.
Truthy(opt) == opt # None /\ opt[1] # <<>>

\* f"{self.session_id}": None formats as the text 'None'.
Format(opt) == IF opt = None THEN <<"None">> ELSE opt[1]

Marker == "?sessionid="

Blank == " "

\* the separator of two parameters of a query string
Amp == "&"

RECURSIVE LStrip(_)
LStrip(s) == IF s # <<>> /\ Head(s) = Blank THEN LStrip(Tail(s)) ELSE s

RECURSIVE RStrip(_)
RStrip(s) ==
    IF s # <<>> /\ s[Len(s)] = Blank THEN RStrip(SubSeq(s, 1, Len(s) - 1)) ELSE s

\* str.strip()
Strip(s) == RStrip(LStrip(s))

\* '?sessionid=' in endpoint_url
Contains(s, tok) == \E i \in 1..Len(s) : s[i] = tok

\* index of the first occurrence of tok in s at or after position i, or Len(s)+1
RECURSIVE Find(_, _, _)
Find(s, tok, i) ==
    IF i > Len(s) THEN Len(s) + 1
    ELSE IF s[i] = tok THEN i
    ELSE Find(s, tok, i + 1)

\* endpoint_url.split('?sessionid=')[1]: the text between the first marker and
\* the next one (or the end of the string)
SplitSecond(s, tok) ==
    LET a == Find(s, tok, 1)
        b == Find(s, tok, a + 1)
    IN  SubSeq(s, a + 1, b - 1)

\* The parsed form of a message payload: json.loads(event.data).
\*   wf      the text is well-formed JSON
\*   obj     the JSON value is an object (dict)
\*   id      the request the server is answering (0: unsolicited)
\*   error   the object has an 'error' key
\*   result  the object has a 'result' key
\*   content the text fields of result['content']
\*   detail  the value of the 'error' key
NoDoc == [wf |-> FALSE, obj |-> FALSE, id |-> 0, error |-> FALSE,
          result |-> FALSE, content |-> <<>>, detail |-> <<>>]

ResultDoc(i, c) == [wf |-> TRUE, obj |-> TRUE, id |-> i, error |-> FALSE,
                    result |-> TRUE, content |-> c, detail |-> <<>>]

ErrorDoc(i) == [wf |-> TRUE, obj |-> TRUE, id |-> i, error |-> TRUE,
                result |-> FALSE, content |-> <<>>, detail |-> <<"e1">>]

\* an object with both keys
BothDoc(i, c) == [wf |-> TRUE, obj |-> TRUE, id |-> i, error |-> TRUE,
                  result |-> TRUE, content |-> c, detail |-> <<"e2">>]

\* JSON that is no object (a number, say): it has no key, so no id
ScalarDoc == [wf |-> TRUE, obj |-> FALSE, id |-> 0, error |-> FALSE,
              result |-> FALSE, content |-> <<>>, detail |-> <<>>]

\* Payloads a server can put in an 'endpoint' event.
EndpointData ==
    { <<"/sse", Marker, "s1">>,
      <<Blank, "/sse", Marker, "s2", Amp, "v=1", Blank>>,
      <<"/sse", Marker>>,
      <<"/sse">>,
      <<>> }

\* Documents a server can put in a 'message' event, answering a request of ids
\* (0: an unsolicited message).
MessageDocs(ids) ==
    { ResultDoc(i, <<"t1", "t2">>) : i \in ids }
    \cup { ResultDoc(0, <<>>), ErrorDoc(0), BothDoc(0, <<"t1">>), ScalarDoc }

\* Text json.loads gives up on with RecursionError (brackets nested deeper
\* than the interpreter's recursion limit): no JSONDecodeError.
TooDeep == <<"[[[[">>

\* The events a stream can deliver.
Events(ids) ==
    { [name |-> "endpoint", data |-> d, doc |-> NoDoc] : d \in EndpointData }
    \cup { [name |-> "message", data |-> <<"json">>, doc |-> m] : m \in MessageDocs(ids) }
    \cup { [name |-> "message", data |-> <<"json">>, doc |-> NoDoc],
           [name |-> "message", data |-> TooDeep, doc |-> NoDoc],
           [name |-> "message", data |-> <<>>, doc |-> NoDoc],
           [name |-> "ping", data |-> <<"x">>, doc |-> NoDoc] }

NoEvent == [name |-> "none", data |-> <<>>, doc |-> NoDoc, eid |-> 0]

\* What a caller keeps of a dequeued message: the request it answers and its
\* place in the order of the puts (0: nothing dequeued).
NoEnv == [id |-> 0, seq |-> 0]

NoRet == [op |-> "none", kind |-> "none", site |-> 0, val |-> <<>>,
          req |-> 0, mark |-> 0, env |-> NoEnv]

Readers == 1..(IF MaxConnects > AgainConnects THEN MaxConnects ELSE AgainConnects)

IdleReader == [pc |-> "none", stream |-> 0, ev |-> NoEvent]

IdleCaller == [pc |-> "idle", op |-> "none", req |-> 0, mark |-> 0,
               env |-> NoEnv]

\* threading.Thread.is_alive()
is_alive(r) == rd[r].pc \in {"start", "wait", "handle"}

\* operations begun, disconnects begun and events accepted so far
inputs == ncalls + ndisc + nevents

\* number of messages put on response_queue so far
npush == Len(dequeued) + Len(response_queue)

(***************************************************************************)
(* __init__                                                                *)
(***************************************************************************)
Start(l) ==
    /\ lim = l
    /\ session_id = None
    /\ initialized = FALSE
    /\ stop_event = FALSE
    /\ sse_client = 0
    /\ sse_thread = 0
    /\ response_queue = <<>>
    /\ rd = [r \in Readers |-> IdleReader]
    /\ cl = IdleCaller
    /\ dc = "idle"
    /\ ret = NoRet
    /\ posts = <<>>
    /\ dequeued = <<>>
    /\ accepted = {}
    /\ dropped = {}
    /\ timedOut = {}
    /\ nevents = 0
    /\ nconn = 0
    /\ ncalls = 0
    /\ ndisc = 0
    /\ sid_by = 0
    /\ connect_since = FALSE
    /\ stop_req = 0

Init == Start(Limits)

InitLive == Start(LiveLimits)

\* The client when its first connect() has just returned: the stream has
\* announced session 's1' and answered the initialize request.
Connected ==
    /\ session_id = Some(<<"s1">>)
    /\ initialized = TRUE
    /\ stop_event = FALSE
    /\ sse_client = 1
    /\ sse_thread = 1
    /\ response_queue = <<>>
    /\ rd = [r \in Readers |->
                IF r = 1 THEN [IdleReader EXCEPT !.pc = "wait", !.stream = 1]
                ELSE IdleReader]
    /\ cl = IdleCaller
    /\ dc = "idle"
    /\ ret = [op |-> "connect", kind |-> "ok", site |-> 177, val |-> <<>>,
              req |-> 1, mark |-> 0, env |-> [id |-> 1, seq |-> 1]]
    /\ posts = <<[op |-> "connect", sid |-> <<"s1">>, set |-> TRUE, conn |-> 1,
                  by |-> 1, ack |-> TRUE]>>
    /\ dequeued = <<[eid |-> 2, seq |-> 1, reader |-> 1]>>
    /\ accepted = {2}
    /\ dropped = {}
    /\ timedOut = {}
    /\ nevents = 2
    /\ nconn = 1
    /\ ncalls = 1
    /\ ndisc = 0
    /\ sid_by = 1
    /\ connect_since = FALSE
    /\ stop_req = 0

\* a run that goes on from there
InitAgain == lim = AgainLimits /\ Connected

\* An operation of the foreground thread ends: raise (kind an error) or return.
Finish(op, kind, site, val, env) ==
    /\ cl' = IdleCaller
    /\ ret' = [op |-> op, kind |-> kind, site |-> site, val |-> val,
               req |-> cl.req, mark |-> cl.mark, env |-> env]


(***************************************************************************)
(* connect()                                                               *)
(***************************************************************************)
GetStatuses == {200, 503}

\* (a connect() that starts the reader before it looks at the status)
connect_open_reader_first(status) ==
    /\ cl.pc = "idle"
    /\ nconn < lim.connects
    /\ ncalls < lim.ops
    /\ inputs < lim.inputs
    /\ ncalls' = ncalls + 1
    /\ nconn' = nconn + 1
    /\ sse_client' = nconn + 1
    /\ sse_thread' = nconn + 1
    /\ rd' = [rd EXCEPT ![nconn + 1] = [IdleReader EXCEPT !.pc = "start"]]
    /\ IF status # 200
       THEN Finish("connect", "ConnectionError", 106, <<>>, NoEnv)
       ELSE /\ cl' = [IdleCaller EXCEPT !.pc = "c_poll", !.op = "connect"]
            /\ UNCHANGED ret
    /\ UNCHANGED <<session_id, initialized, stop_event, response_queue,
                   sid_by, dc, logs, nevents, ndisc>>
    /\ connect_since' = (connect_since \/ (ndisc > 0 /\ dc = "idle"))
    /\ UNCHANGED <<lim, stop_req>>

\* lines 104-112: GET /sse; a status other than 200 raises; else the response
\* is wrapped in a new SSEClient and the reader thread is created and started.
connect_open(status) ==
    /\ cl.pc = "idle"
    /\ nconn < lim.connects
    /\ ncalls < lim.ops
    /\ inputs < lim.inputs
    /\ ncalls' = ncalls + 1
    /\ IF status # 200
       THEN /\ Finish("connect", "ConnectionError", 106, <<>>, NoEnv)
            /\ UNCHANGED <<shared, rd, dc, logs, nevents, nconn, ndisc>>
       ELSE /\ nconn' = nconn + 1
            /\ sse_client' = nconn + 1
            /\ sse_thread' = nconn + 1
            /\ rd' = [rd EXCEPT ![nconn + 1] = [IdleReader EXCEPT !.pc = "start"]]
            /\ cl' = [IdleCaller EXCEPT !.pc = "c_poll", !.op = "connect"]
            /\ UNCHANGED <<session_id, initialized, stop_event, response_queue,
                           sid_by, dc, ret, logs, nevents, ndisc>>
    /\ connect_since' = (connect_since \/ (ndisc > 0 /\ dc = "idle"))
    /\ UNCHANGED <<lim, stop_req>>

\* lines 118, 123-126: the poll sees a session id and goes on to _initialize.
connect_poll_ok ==
    /\ cl.pc = "c_poll"
    /\ Truthy(session_id)
    /\ cl' = [cl EXCEPT !.pc = "s_check"]
    /\ UNCHANGED <<shared, rd, dc, ret, logs, counters>>
    /\ UNCHANGED hist

\* (a timeout that also signals the reader to stop)
connect_poll_timeout_stops ==
    /\ cl.pc = "c_poll"
    /\ ~Truthy(session_id)
    /\ stop_event' = TRUE
    /\ Finish("connect", "TimeoutError", 120, <<>>, NoEnv)
    /\ UNCHANGED <<session_id, initialized, sse_client, sse_thread,
                   response_queue, sid_by, rd, dc, logs, counters>>
    /\ UNCHANGED hist

\* (a poll without a timeout: it ends only when a session id shows up)
connect_poll_unbounded ==
    /\ cl.pc = "c_poll"
    /\ ~Truthy(session_id) /\ Truthy(session_id)
    /\ UNCHANGED vars

\* lines 118-120: no session id and the 10 s have passed.
connect_poll_timeout ==
    /\ cl.pc = "c_poll"
    /\ ~Truthy(session_id)
    /\ Finish("connect", "TimeoutError", 120, <<>>, NoEnv)
    /\ UNCHANGED <<shared, rd, dc, logs, counters>>
    /\ UNCHANGED hist

(***************************************************************************)
(* call_tool(), list_tools(): the check of self.initialized                *)
(***************************************************************************)
Calls == {"call_tool", "list_tools"}

NotInitializedSite(op) == IF op = "call_tool" THEN 232 ELSE 341

\* (a call that does not look at self.initialized)
call_start_unchecked(op) ==
    /\ cl.pc = "idle"
    /\ ncalls < lim.ops
    /\ inputs < lim.inputs
    /\ ncalls' = ncalls + 1
    /\ cl' = [IdleCaller EXCEPT !.pc = "s_check", !.op = op]
    /\ UNCHANGED <<ret, shared, rd, dc, logs, nevents, nconn, ndisc>>
    /\ UNCHANGED hist

\* lines 231-232 and 340-341
call_start(op) ==
    /\ cl.pc = "idle"
    /\ ncalls < lim.ops
    /\ inputs < lim.inputs
    /\ ncalls' = ncalls + 1
    /\ IF ~initialized
       THEN Finish(op, "StateError", NotInitializedSite(op), <<>>, NoEnv)
       ELSE /\ cl' = [IdleCaller EXCEPT !.pc = "s_check", !.op = op]
            /\ UNCHANGED ret
    /\ UNCHANGED <<shared, rd, dc, logs, nevents, nconn, ndisc>>
    /\ UNCHANGED hist

(***************************************************************************)
(* _send_request()                                                         *)
(***************************************************************************)
\* lines 190-191
send_request_check ==
    /\ cl.pc = "s_check"
    /\ IF ~Truthy(session_id)
       THEN Finish(cl.op, "StateError", 191, <<>>, NoEnv)
       ELSE /\ cl' = [cl EXCEPT !.pc = "s_post"]
            /\ UNCHANGED ret
    /\ UNCHANGED <<shared, rd, dc, logs, counters>>
    /\ UNCHANGED hist

PostStatuses == {200, 202, 500}

\* f"{response.status_code}"
StatusText(status) ==
    CASE status = 200 -> "200" [] status = 202 -> "202" [] status = 500 -> "500"

\* (a _send_request that does not look at the status of the answer)
send_request_post_unchecked(status) ==
    /\ cl.pc = "s_post"
    /\ posts' = Append(posts, [op |-> cl.op, sid |-> Format(session_id),
                               set |-> session_id # None, conn |-> nconn,
                               by |-> sid_by, ack |-> status \in {200, 202}])
    /\ cl' = [cl EXCEPT !.pc = "s_wait", !.req = Len(posts) + 1, !.mark = npush]
    /\ UNCHANGED <<ret, timedOut, shared, rd, dc, dequeued, accepted, dropped,
                   counters, hist>>

\* lines 194-210: the url is built from a second read of self.session_id, the
\* request is POSTed to it and the status of the answer is checked.
send_request_post(status) ==
    /\ cl.pc = "s_post"
    /\ posts' = Append(posts, [op |-> cl.op, sid |-> Format(session_id),
                               set |-> session_id # None, conn |-> nconn,
                               by |-> sid_by, ack |-> status \in {200, 202}])
    /\ IF status \notin {200, 202}
       THEN /\ Finish(cl.op, "TransportError", 205,
                       <<StatusText(status), "response.text">>, NoEnv)
            /\ UNCHANGED timedOut
       ELSE /\ cl' = [cl EXCEPT !.pc = "s_wait", !.req = Len(posts) + 1,
                                !.mark = npush]
            /\ UNCHANGED <<ret, timedOut>>
    /\ UNCHANGED <<shared, rd, dc, dequeued, accepted, dropped, counters>>
    /\ UNCHANGED hist

(***************************************************************************)
(* _read_sse_response() and what each operation does with the response     *)
(***************************************************************************)
\* (a queue handing out the newest message)
QueueGetNewest(q) == q[Len(q)]

\* queue.Queue.get(): the oldest message
QueueGet(q) == Head(q)

QueueRest(q) == Tail(q)

\* queue.Queue.put(): behind the messages already queued
QueuePut(q, m) == Append(q, m)

Tag(m) == [eid |-> m.eid, seq |-> m.seq, reader |-> m.reader]

Env(m) == [id |-> m.doc.id, seq |-> m.seq]

\* lines 174-175: _initialize
initialize_result(doc) ==
    IF ~doc.obj THEN [kind |-> "TypeError", site |-> 174, val |-> <<>>]
    ELSE IF doc.error
    THEN [kind |-> "ProtocolError", site |-> 175, val |-> doc.detail]
    ELSE [kind |-> "ok", site |-> 177, val |-> <<>>]

\* (a call_tool that returns every content item)
call_tool_result_all(doc) ==
    IF ~doc.obj THEN [kind |-> "TypeError", site |-> 246, val |-> <<>>]
    ELSE IF doc.error
    THEN [kind |-> "OperationError", site |-> 247, val |-> doc.detail]
    ELSE [kind |-> "ok", site |-> 257, val |-> doc.content]

\* (a call_tool that looks for a result before it looks for an error)
call_tool_result_first(doc) ==
    IF ~doc.obj THEN [kind |-> "TypeError", site |-> 246, val |-> <<>>]
    ELSE IF doc.result /\ doc.content # <<>>
    THEN [kind |-> "ok", site |-> 257, val |-> <<doc.content[1]>>]
    ELSE IF doc.error
    THEN [kind |-> "OperationError", site |-> 247, val |-> doc.detail]
    ELSE [kind |-> "ProtocolError", site |-> 254, val |-> <<>>]

\* lines 246-257: call_tool
call_tool_result(doc) ==
    IF ~doc.obj THEN [kind |-> "TypeError", site |-> 246, val |-> <<>>]
    ELSE IF doc.error
    THEN [kind |-> "OperationError", site |-> 247, val |-> doc.detail]
    ELSE IF doc.content = <<>> THEN [kind |-> "ProtocolError", site |-> 254, val |-> <<>>]
    ELSE [kind |-> "ok", site |-> 257, val |-> <<doc.content[1]>>]

\* lines 352-355: list_tools
list_tools_result(doc) ==
    IF ~doc.obj THEN [kind |-> "TypeError", site |-> 352, val |-> <<>>]
    ELSE IF doc.error
    THEN [kind |-> "OperationError", site |-> 353, val |-> doc.detail]
    ELSE [kind |-> "ok", site |-> 355, val |-> <<"tools">>]

\* lines 215-216, then lines 174-175 of _initialize
initialize_receive ==
    /\ cl.pc = "s_wait"
    /\ cl.op = "connect"
    /\ response_queue # <<>>
    /\ LET m == QueueGet(response_queue)
           res == initialize_result(m.doc)
       IN  /\ response_queue' = QueueRest(response_queue)
           /\ dequeued' = Append(dequeued, Tag(m))
           /\ IF res.kind = "ok"
              THEN /\ cl' = [cl EXCEPT !.pc = "i_set", !.env = Env(m)]
                   /\ UNCHANGED ret
              ELSE Finish("connect", res.kind, res.site, res.val, Env(m))
    /\ UNCHANGED <<session_id, initialized, stop_event, sse_client, sse_thread,
                   sid_by, rd, dc, posts, accepted, dropped, timedOut, counters>>
    /\ UNCHANGED hist

\* (a handshake that returns without marking the session initialized)
initialize_set_skipped ==
    /\ cl.pc = "i_set"
    /\ Finish("connect", "ok", 177, <<>>, cl.env)
    /\ UNCHANGED <<shared, rd, dc, logs, counters>>
    /\ UNCHANGED hist

\* lines 177-178
initialize_set ==
    /\ cl.pc = "i_set"
    /\ initialized' = TRUE
    /\ Finish("connect", "ok", 177, <<>>, cl.env)
    /\ UNCHANGED <<session_id, stop_event, sse_client, sse_thread,
                   response_queue, sid_by, rd, dc, logs, counters>>
    /\ UNCHANGED hist

\* lines 215-216, then the rest of call_tool or list_tools
call_receive ==
    /\ cl.pc = "s_wait"
    /\ cl.op \in Calls
    /\ response_queue # <<>>
    /\ LET m == QueueGet(response_queue)
           res == IF cl.op = "call_tool" THEN call_tool_result(m.doc)
                  ELSE list_tools_result(m.doc)
       IN  /\ response_queue' = QueueRest(response_queue)
           /\ dequeued' = Append(dequeued, Tag(m))
           /\ Finish(cl.op, res.kind, res.site, res.val, Env(m))
    /\ UNCHANGED <<session_id, initialized, stop_event, sse_client, sse_thread,
                   sid_by, rd, dc, posts, accepted, dropped, timedOut, counters>>
    /\ UNCHANGED hist

\* (a response timeout that resets the session)
read_sse_response_timeout_resets ==
    /\ cl.pc = "s_wait"
    /\ response_queue = <<>>
    /\ timedOut' = timedOut \cup {cl.req}
    /\ initialized' = FALSE
    /\ Finish(cl.op, "TimeoutError", 218, <<>>, NoEnv)
    /\ UNCHANGED <<session_id, stop_event, sse_client, sse_thread,
                   response_queue, sid_by, rd, dc, posts, dequeued, accepted,
                   dropped, counters>>
    /\ UNCHANGED hist

\* (a response timeout after which the request is POSTed again)
read_sse_response_timeout_retries ==
    /\ cl.pc = "s_wait"
    /\ response_queue = <<>>
    /\ cl.req \notin timedOut
    /\ timedOut' = timedOut \cup {cl.req}
    /\ cl' = [cl EXCEPT !.pc = "s_post"]
    /\ UNCHANGED <<ret, shared, rd, dc, posts, dequeued, accepted, dropped,
                   counters, hist>>

\* (a response wait without a timeout: queue.get() on an empty queue blocks)
read_sse_response_blocks ==
    /\ cl.pc = "s_wait"
    /\ response_queue = <<>>
    /\ stop_event /\ ~stop_event
    /\ UNCHANGED vars

\* (a response timeout that signals the reader to stop)
read_sse_response_timeout_closes ==
    /\ cl.pc = "s_wait"
    /\ response_queue = <<>>
    /\ timedOut' = timedOut \cup {cl.req}
    /\ stop_event' = TRUE
    /\ Finish(cl.op, "TimeoutError", 218, <<>>, NoEnv)
    /\ UNCHANGED <<session_id, initialized, sse_client, sse_thread,
                   response_queue, sid_by, rd, dc, posts, dequeued, accepted,
                   dropped, counters, hist>>

\* lines 217-218: queue.Empty after the 30 s
read_sse_response_timeout ==
    /\ cl.pc = "s_wait"
    /\ response_queue = <<>>
    /\ timedOut' = timedOut \cup {cl.req}
    /\ Finish(cl.op, "TimeoutError", 218, <<>>, NoEnv)
    /\ UNCHANGED <<shared, rd, dc, posts, dequeued, accepted, dropped, counters>>
    /\ UNCHANGED hist

(***************************************************************************)
(* disconnect()                                                            *)
(***************************************************************************)
\* line 362
disconnect_set ==
    /\ dc = "idle"
    /\ ndisc < lim.disc
    /\ inputs < lim.inputs
    /\ ndisc' = ndisc + 1
    /\ stop_event' = TRUE
    /\ dc' = "d_join"
    /\ UNCHANGED <<session_id, initialized, sse_client, sse_thread,
                   response_queue, sid_by, rd, cl, ret, logs, nevents, nconn,
                   ncalls>>
    /\ stop_req' = IF cl.pc = "s_wait" /\ response_queue = <<>> THEN cl.req
                   ELSE stop_req
    /\ UNCHANGED <<lim, connect_since>>

\* lines 363-367: the reader is not alive (no thread, or it ended before or
\* during the join); self.sse_client is dropped.
disconnect_joined ==
    /\ dc = "d_join"
    /\ ~(sse_thread # 0 /\ is_alive(sse_thread))
    /\ sse_client' = 0
    /\ dc' = "d_sid"
    /\ UNCHANGED <<session_id, initialized, stop_event, sse_thread,
                   response_queue, sid_by, rd, cl, ret, logs, counters>>
    /\ UNCHANGED hist

\* (a join() without a timeout: it returns once the reader has ended)
disconnect_join_unbounded ==
    /\ dc = "d_join"
    /\ sse_thread # 0 /\ rd[sse_thread].pc = "done"
    /\ sse_client' = 0
    /\ dc' = "d_sid"
    /\ UNCHANGED <<session_id, initialized, stop_event, sse_thread,
                   response_queue, sid_by, rd, cl, ret, logs, counters, hist>>

\* lines 363-367: join() returns after its 2 s with the reader still alive;
\* self.sse_client is dropped.
disconnect_join_timeout ==
    /\ dc = "d_join"
    /\ sse_thread # 0 /\ is_alive(sse_thread)
    /\ sse_client' = 0
    /\ dc' = "d_sid"
    /\ UNCHANGED <<session_id, initialized, stop_event, sse_thread,
                   response_queue, sid_by, rd, cl, ret, logs, counters>>
    /\ UNCHANGED hist

\* (a disconnect() that clears the session id of an initialized client only)
disconnect_sid_if_initialized ==
    /\ dc = "d_sid"
    /\ session_id' = IF initialized THEN None ELSE session_id
    /\ sid_by' = IF initialized THEN 0 ELSE sid_by
    /\ dc' = "d_init"
    /\ UNCHANGED <<initialized, stop_event, sse_client, sse_thread,
                   response_queue, rd, cl, ret, logs, counters, hist>>

\* line 369
disconnect_sid ==
    /\ dc = "d_sid"
    /\ session_id' = None
    /\ sid_by' = 0
    /\ dc' = "d_init"
    /\ UNCHANGED <<initialized, stop_event, sse_client, sse_thread,
                   response_queue, rd, cl, ret, logs, counters>>
    /\ UNCHANGED hist

\* line 370
disconnect_init ==
    /\ dc = "d_init"
    /\ initialized' = FALSE
    /\ dc' = "idle"
    /\ UNCHANGED <<session_id, stop_event, sse_client, sse_thread,
                   response_queue, sid_by, rd, cl, ret, logs, counters>>
    /\ connect_since' = FALSE
    /\ UNCHANGED <<lim, stop_req>>

(***************************************************************************)
(* _sse_reader()                                                           *)
(***************************************************************************)
\* line 131: the thread evaluates self.sse_client.events(); on None the
\* AttributeError is caught at line 152 and the thread ends.
sse_reader_start(r) ==
    /\ rd[r].pc = "start"
    /\ rd' = [rd EXCEPT ![r] = IF sse_client = 0
                               THEN [IdleReader EXCEPT !.pc = "done"]
                               ELSE [@ EXCEPT !.pc = "wait", !.stream = sse_client]]
    /\ UNCHANGED <<shared, cl, dc, ret, logs, counters>>
    /\ UNCHANGED hist

\* line 136
IsEndpoint(ev) == ev.name = "endpoint" /\ ev.data # <<>>

\* line 145
IsMessage(ev) == ev.name = "message" /\ ev.data # <<>>

\* a message event whose payload json.loads accepts
Parses(ev) == IsMessage(ev) /\ ev.doc.wf

\* The requests a server answers: the one being waited for and those whose
\* wait timed out (a late answer); 0 is an unsolicited message.
Answerable == {0} \cup timedOut \cup (IF cl.pc = "s_wait" THEN {cl.req} ELSE {})

\* An event that can change the client's state when handled: an announcement
\* carrying the parameter, or a message that parses.
Effective(ev) ==
    \/ IsEndpoint(ev) /\ Contains(Strip(ev.data), Marker)
    \/ Parses(ev)

\* (a reader that does not test the stop signal)
sse_reader_next_unchecked(r, ev) ==
    /\ rd[r].pc = "wait"
    /\ Effective(ev) => nevents < lim.events /\ inputs < lim.inputs
    /\ rd' = [rd EXCEPT ![r] =
                 IF IsEndpoint(ev) \/ IsMessage(ev)
                 THEN [@ EXCEPT !.pc = "handle",
                          !.ev = [name |-> ev.name, data |-> ev.data,
                                  doc |-> ev.doc,
                                  eid |-> IF Effective(ev) THEN nevents + 1
                                          ELSE 0]]
                 ELSE @]
    /\ nevents' = IF Effective(ev) THEN nevents + 1 ELSE nevents
    /\ accepted' = IF Parses(ev) THEN accepted \cup {nevents + 1} ELSE accepted
    /\ UNCHANGED <<dropped, shared, cl, dc, ret, posts, dequeued, timedOut,
                   nconn, ncalls, ndisc, hist>>

\* lines 131-133 (and 136, 145 for an event of neither kind): the next event
\* arrives, the stop signal is tested and the event is classified.
sse_reader_next(r, ev) ==
    /\ rd[r].pc = "wait"
    /\ Effective(ev) /\ ~stop_event => nevents < lim.events /\ inputs < lim.inputs
    /\ IF stop_event
       THEN /\ rd' = [rd EXCEPT ![r] = [@ EXCEPT !.pc = "done"]]
            /\ dropped' = IF Parses(ev) THEN dropped \cup {r} ELSE dropped
            /\ UNCHANGED <<nevents, accepted>>
       ELSE /\ rd' = [rd EXCEPT ![r] =
                         IF IsEndpoint(ev) \/ IsMessage(ev)
                         THEN [@ EXCEPT !.pc = "handle",
                                  !.ev = [name |-> ev.name, data |-> ev.data,
                                          doc |-> ev.doc,
                                          eid |-> IF Effective(ev) THEN nevents + 1
                                                  ELSE 0]]
                         ELSE @]
            /\ nevents' = IF Effective(ev) THEN nevents + 1 ELSE nevents
            /\ accepted' = IF Parses(ev) THEN accepted \cup {nevents + 1}
                           ELSE accepted
            /\ UNCHANGED dropped
    /\ UNCHANGED <<shared, cl, dc, ret, posts, dequeued, timedOut, nconn,
                   ncalls, ndisc>>
    /\ UNCHANGED hist

\* (a reader that marks the client uninitialized when its stream ends)
sse_reader_end_resets(r) ==
    /\ rd[r].pc = "wait"
    /\ rd' = [rd EXCEPT ![r] = [@ EXCEPT !.pc = "done"]]
    /\ initialized' = FALSE
    /\ UNCHANGED <<session_id, stop_event, sse_client, sse_thread,
                   response_queue, sid_by, cl, dc, ret, logs, counters, hist>>

\* line 131 / 152: the stream ends or a read fails; the loop is left.
sse_reader_end(r) ==
    /\ rd[r].pc = "wait"
    /\ rd' = [rd EXCEPT ![r] = [@ EXCEPT !.pc = "done"]]
    /\ UNCHANGED <<shared, cl, dc, ret, logs, counters>>
    /\ UNCHANGED hist

\* lines 137-141: the session id an endpoint event leaves in self.session_id
EndpointSessionId(old, data) ==
    LET endpoint_url == Strip(data) IN
    IF Contains(endpoint_url, Marker)
    THEN Some(SplitSecond(endpoint_url, Marker))
    ELSE old

\* lines 136-142: an endpoint event is handled.
sse_reader_endpoint(r) ==
    /\ rd[r].pc = "handle"
    /\ IsEndpoint(rd[r].ev)
    /\ session_id' = EndpointSessionId(session_id, rd[r].ev.data)
    /\ sid_by' = IF Contains(Strip(rd[r].ev.data), Marker) THEN rd[r].stream
                 ELSE sid_by
    /\ rd' = [rd EXCEPT ![r] = [@ EXCEPT !.pc = "wait", !.ev = NoEvent]]
    /\ UNCHANGED <<initialized, stop_event, sse_client, sse_thread,
                   response_queue, cl, dc, ret, logs, counters>>
    /\ UNCHANGED hist

\* line 147: json.loads(event.data) returns the document, or raises
\* JSONDecodeError, or (on TooDeep) RecursionError.
Loads(ev) ==
    IF ev.doc.wf THEN "value"
    ELSE IF ev.data = TooDeep THEN "RecursionError"
    ELSE "JSONDecodeError"

\* lines 145-153: a message event is handled.  A JSONDecodeError is caught at
\* line 150 and the loop goes on; any other exception leaves the loop and is
\* caught at line 152, where the thread ends.
sse_reader_message(r) ==
    /\ rd[r].pc = "handle"
    /\ ~IsEndpoint(rd[r].ev)
    /\ IsMessage(rd[r].ev)
    /\ response_queue' =
           IF Loads(rd[r].ev) = "value"
           THEN QueuePut(response_queue,
                         [doc |-> rd[r].ev.doc, eid |-> rd[r].ev.eid,
                          seq |-> npush + 1, reader |-> r])
           ELSE response_queue
    /\ rd' = [rd EXCEPT ![r] =
                 IF Loads(rd[r].ev) = "RecursionError"
                 THEN [@ EXCEPT !.pc = "done", !.ev = NoEvent]
                 ELSE [@ EXCEPT !.pc = "wait", !.ev = NoEvent]]
    /\ UNCHANGED <<session_id, initialized, stop_event, sse_client, sse_thread,
                   sid_by, cl, dc, ret, logs, counters>>
    /\ UNCHANGED hist

(***************************************************************************)
(* The system                                                              *)
(***************************************************************************)
Next ==
    \/ \E status \in GetStatuses : connect_open(status)
    \/ connect_poll_ok
    \/ connect_poll_timeout
    \/ \E op \in Calls : call_start(op)
    \/ send_request_check
    \/ \E status \in PostStatuses : send_request_post(status)
    \/ initialize_receive
    \/ initialize_set
    \/ call_receive
    \/ read_sse_response_timeout
    \/ disconnect_set
    \/ disconnect_joined
    \/ disconnect_join_timeout
    \/ disconnect_sid
    \/ disconnect_init
    \/ \E r \in Readers : sse_reader_start(r)
    \/ \E r \in Readers : \E ev \in Events(Answerable) : sse_reader_next(r, ev)
    \/ \E r \in Readers : sse_reader_end(r)
    \/ \E r \in Readers : sse_reader_endpoint(r)
    \/ \E r \in Readers : sse_reader_message(r)

Spec == Init /\ [][Next]_vars

AgainSpec == InitAgain /\ [][Next]_vars

\* What the threads do on their own, given time: the waits that carry a timeout
\* end (lines 118-121, 215-218, 364) and a running thread takes its next step.
\* Nothing makes the server send an event or close the stream, the network
\* answer a POST, or the user call an operation.
Fairness ==
    /\ WF_vars(connect_poll_ok \/ connect_poll_timeout)
    /\ WF_vars(send_request_check)
    /\ WF_vars(initialize_receive \/ call_receive \/ read_sse_response_timeout)
    /\ WF_vars(initialize_set)
    /\ WF_vars(disconnect_joined \/ disconnect_join_timeout)
    /\ WF_vars(disconnect_sid)
    /\ WF_vars(disconnect_init)
    /\ \A r \in Readers :
          WF_vars(sse_reader_start(r) \/ sse_reader_endpoint(r)
                  \/ sse_reader_message(r))

LiveSpec == InitLive /\ [][Next]_vars /\ Fairness


(***************************************************************************)
(* Properties                                                              *)
(***************************************************************************)
\* steps of the foreground thread, recognised by what they change
CallBegins ==
    /\ cl.pc = "idle"
    /\ ncalls' = ncalls + 1
    /\ \/ cl'.op \in Calls
       \/ cl'.pc = "idle" /\ ret'.op \in Calls

ConnectReturns == cl.pc = "i_set" /\ cl'.pc = "idle"

ConnectTimesOut == cl.pc = "c_poll" /\ cl'.pc = "idle"

ResponseTimesOut == cl.pc = "s_wait" /\ cl'.pc = "idle" /\ dequeued' = dequeued

\* the initialize requests POSTed by the c-th connect()
InitPosts(c) == {i \in 1..Len(posts) : posts[i].op = "connect" /\ posts[i].conn = c}

\* every message put on response_queue so far, in the order callers get them
Delivered ==
    dequeued \o [i \in 1..Len(response_queue) |-> Tag(response_queue[i])]

DeliveredIds == {Delivered[i].eid : i \in 1..Len(Delivered)}

\* messages a reader has accepted and not yet put on the queue
InHand ==
    {rd[r].ev.eid : r \in {x \in Readers : rd[x].pc = "handle" /\ Parses(rd[x].ev)}}

\* C1: no request is POSTed while the session id is unset: every POST issued by
\* _send_request was made while self.session_id held a session id.
C1_NoPostWhileUnset == \A i \in 1..Len(posts) : posts[i].set

\* C2: initialized implies that the session id is set (looked at whenever no
\* disconnect() is part-way through its clearing of the two fields).
C2_InitializedHasSession == (dc = "idle" /\ initialized) => session_id # None

\* C3: the envelope a call returns arrived after that call's POST: it was not
\* in the Delivery Sink when the POST was made.
C3_ResponseArrivedAfterPost == ret.kind = "ok" => ret.env.seq > ret.mark

\* C4: the envelope a call returns is never the late response to an earlier
\* call that timed out.
C4_NoLateResponseToLaterCall == ret.kind = "ok" => ret.env.id \notin timedOut

\* C5 (as amended): every message event that parses and is read while the stop
\* signal is not set is put on the Delivery Sink exactly once, is dequeued at
\* most once, and messages are dequeued in the order they were put, which for
\* the messages of one reader is the order it read them from its stream.
C5_DeliveredOnceInOrder ==
    /\ \A i \in 1..Len(Delivered) : Delivered[i].seq = i
    /\ \A i, j \in 1..Len(Delivered) :
          i < j => /\ Delivered[i].eid # Delivered[j].eid
                   /\ Delivered[i].reader = Delivered[j].reader
                          => Delivered[i].eid < Delivered[j].eid
    /\ accepted = DeliveredIds \cup InHand
    /\ DeliveredIds \cap InHand = {}

\* C5 (as claimed): the same of every message event that parses, whenever read.
C5_EveryParsedMessagePushed == C5_DeliveredOnceInOrder /\ dropped = {}

\* C5 witness: one message has been dequeued while a later one waits.
C5_Witness == Len(dequeued) >= 1 /\ Len(response_queue) >= 1

\* C6: once an announcement of a stream has set the session id, a later
\* announcement on that stream does not change it.
C6_SessionIdWrittenOnce ==
    [][\A r \in Readers :
          (rd[r].pc = "handle" /\ rd'[r].pc = "wait" /\ Truthy(session_id)
              /\ sid_by = rd[r].stream)
          => session_id' = session_id]_vars

\* C7: call_tool and list_tools begun while initialized is false fail with the
\* StateError of their own check, POST nothing and leave the session id, the
\* initialized flag and the Delivery Sink as they were.
C7_CallBeforeInitializeFails ==
    [][(CallBegins /\ ~initialized)
          => /\ cl'.pc = "idle"
             /\ ret'.kind = "StateError"
             /\ ret'.site = NotInitializedSite(ret'.op)
             /\ UNCHANGED <<posts, dequeued, session_id, initialized,
                            response_queue>>]_vars

\* C7 witness: call_tool has failed so on a client that had connected and was
\* then disconnected.
C7_Witness ==
    /\ ret.op = "call_tool" /\ ret.kind = "StateError" /\ ret.site = 232
    /\ Len(posts) > 0 /\ ndisc > 0 /\ dc = "idle"

\* C8 (as amended): when connect() returns normally it has just set initialized,
\* it has POSTed exactly one initialize request, a response without an error
\* payload was dequeued for it, and it had started a reader.
C8_ConnectReturnsInitialized ==
    [][ConnectReturns
          => /\ initialized'
             /\ ret'.op = "connect" /\ ret'.kind = "ok"
             /\ ret'.env.seq # 0
             /\ Cardinality(InitPosts(nconn)) = 1
             /\ rd[nconn].pc # "none"]_vars

\* C8 (as claimed): when connect() returns normally the session id is
\* non-empty, initialized is true, exactly one initialize request was POSTed
\* and the reader started by this connect() is running.
C8_ConnectReturnsConnected ==
    [][ConnectReturns
          => /\ Truthy(session_id')
             /\ initialized'
             /\ Cardinality(InitPosts(nconn)) = 1
             /\ rd'[nconn].pc \in {"start", "wait", "handle"}]_vars

\* C8 witness: connect() has returned normally.
C8_Witness ==
    /\ ret.op = "connect" /\ ret.kind = "ok" /\ cl.pc = "idle"
    /\ initialized /\ Truthy(session_id) /\ is_alive(nconn)

\* C9: a connect() whose poll times out had seen no session id; it fails with
\* TimeoutError, POSTs nothing, does not touch initialized and neither stops
\* nor joins the reader.
C9_ConnectTimeoutLeavesReader ==
    [][ConnectTimesOut
          => /\ ~Truthy(session_id)
             /\ ret'.op = "connect" /\ ret'.kind = "TimeoutError"
             /\ UNCHANGED <<posts, initialized, session_id, stop_event,
                            sse_thread, rd>>]_vars

\* C9 witness: connect() has timed out, nothing was POSTed, initialized is
\* false and the reader is still running.
C9_Witness ==
    /\ ret.op = "connect" /\ ret.kind = "TimeoutError" /\ ret.site = 120
    /\ posts = <<>> /\ ~initialized /\ is_alive(nconn)

\* C10: a response wait ends in TimeoutError only on an empty Delivery Sink,
\* returns no value, and leaves the session id, the initialized flag, the
\* sink and the reader as they were, so that a later call can be made.
C10_ResponseTimeoutKeepsClient ==
    [][ResponseTimesOut
          => /\ response_queue = <<>>
             /\ ret'.kind = "TimeoutError" /\ ret'.val = <<>> /\ ret'.env = NoEnv
             /\ UNCHANGED <<session_id, initialized, response_queue,
                            stop_event, rd>>]_vars

\* C10 witness: after a call timed out, the next call POSTed and returned the
\* response to its own request.
C10_Witness ==
    /\ ret.op \in Calls /\ ret.kind = "ok" /\ ret.env.id = ret.req
    /\ ret.req - 1 \in timedOut

\* a timeout fires: of connect()'s poll or of a response wait
TimeoutFires == ConnectTimesOut \/ ResponseTimesOut

\* C11: a timeout, of connect()'s session-id poll or of a response wait, does
\* not tear down the reader and changes no shared state: every reader that was
\* running still is, and the session id, the initialized flag, the stop signal
\* and the Delivery Sink are what they were just before.
C11_TimeoutChangesNoSharedState ==
    [][TimeoutFires
          => /\ ret'.kind = "TimeoutError"
             /\ \A r \in Readers : is_alive(r) => rd'[r] = rd[r]
             /\ UNCHANGED <<session_id, initialized, stop_event, response_queue,
                            sse_client, sse_thread>>]_vars

\* C11 witness: a call's response wait has timed out on a connected client
\* whose reader is still running.
C11_Witness ==
    /\ ret.op \in Calls /\ ret.kind = "TimeoutError" /\ ret.site = 218
    /\ cl.pc = "idle" /\ initialized /\ Truthy(session_id) /\ ~stop_event
    /\ sse_thread # 0 /\ rd[sse_thread].pc = "wait"

\* C12: when disconnect() has returned and connect() has not been called since,
\* the session id is unset and initialized is false.
C12_DisconnectedIsCleared ==
    (ndisc > 0 /\ dc = "idle" /\ ~connect_since)
        => (~Truthy(session_id) /\ ~initialized)

\* a step of disconnect()
DisconnectSteps == dc' # dc

\* the fields as a disconnect() that runs alone leaves them
Cleared == stop_event /\ sse_client = 0 /\ session_id = None /\ ~initialized

StoppedWhileWaiting == stop_req # 0 /\ cl.pc = "s_wait" /\ cl.req = stop_req

\* that call has ended
StoppedCallEnded == cl.pc = "idle" /\ ret.req # 0 /\ ret.req = stop_req

\* C14 (as amended): a call that is waiting on an empty sink when disconnect()
\* sets the stop signal always terminates, and it ends in TimeoutError unless a
\* message reached the sink after its POST, in which case it ends with what
\* that message yields.
C14_AwaitingCallTerminates ==
    /\ StoppedWhileWaiting ~> StoppedCallEnded
    /\ [](StoppedCallEnded
            => ret.kind = "TimeoutError" \/ ret.env.seq > ret.mark)

\* C14 (as claimed): that call (the handshake of connect(), or a call_tool or
\* list_tools) ends in TimeoutError or StateError.
C14_AwaitingCallTimesOut ==
    StoppedCallEnded => ret.kind \in {"TimeoutError", "StateError"}

\* C14 witness: such a call has ended in TimeoutError after disconnect()
\* returned.
C14_Witness ==
    StoppedCallEnded /\ ret.kind = "TimeoutError" /\ dc = "idle" /\ ndisc > 0

\* C15: once disconnect() has set the stop signal, every running reader
\* eventually exits.
C15_ReaderExitsAfterStop ==
    \A r \in Readers : (stop_event /\ is_alive(r)) ~> ~is_alive(r)

\* C16: disconnect() always returns.
C16_DisconnectReturns == (dc # "idle") ~> (dc = "idle")

\* C16 witness: disconnect() has returned while the reader it could not join
\* is still waiting for an event of its stream.
C16_Witness ==
    /\ ndisc > 0 /\ dc = "idle" /\ sse_client = 0
    /\ sse_thread # 0 /\ rd[sse_thread].pc = "wait"

\* C17: at most one reader thread is alive at any instant.
C17_AtMostOneReader == Cardinality({r \in Readers : is_alive(r)}) <= 1

\* the reader r ends the handling of a message event whose payload json.loads
\* does not accept
HandlesUnparsed(r) ==
    /\ rd[r].pc = "handle" /\ rd'[r].pc # "handle"
    /\ IsMessage(rd[r].ev) /\ ~IsEndpoint(rd[r].ev)
    /\ Loads(rd[r].ev) # "value"

\* C18: a message event whose payload fails to parse is discarded without
\* terminating the reader: nothing is put on the Delivery Sink for it and the
\* reader goes on to the next event.
C18_MalformedMessageDiscarded ==
    [][\A r \in Readers :
          HandlesUnparsed(r)
              => response_queue' = response_queue /\ rd'[r].pc = "wait"]_vars

\* a caller dequeues an envelope that has an 'error' key
DequeuesError ==
    /\ cl.pc = "s_wait" /\ dequeued' # dequeued
    /\ QueueGet(response_queue).doc.obj /\ QueueGet(response_queue).doc.error

\* C19: a dequeued envelope with an error field, with or without a result
\* field, makes the operation fail and return no result value: connect() with
\* the handshake's ProtocolError, call_tool and list_tools with OperationError,
\* each carrying the error detail the server supplied; initialized is not
\* touched, so after a handshake error it is false as before.
C19_ErrorEnvelopeFails ==
    [][DequeuesError
          => /\ cl'.pc = "idle"
             /\ ret'.kind = (IF cl.op = "connect" THEN "ProtocolError"
                             ELSE "OperationError")
             /\ ret'.val = QueueGet(response_queue).doc.detail
             /\ ret'.val # QueueGet(response_queue).doc.content
             /\ initialized' = initialized
             /\ cl.op = "connect" => ~initialized']_vars

\* C19 witness: call_tool has failed on an envelope that carried an error and
\* a result.
C19_Witness ==
    /\ ret.op = "call_tool" /\ ret.kind = "OperationError" /\ ret.val = <<"e2">>

\* a POST is answered with a status outside {200, 202}
PostRefused ==
    /\ cl.pc = "s_post" /\ Len(posts') = Len(posts) + 1
    /\ ~posts'[Len(posts')].ack

\* C20: a POST answered with a status outside {200, 202} makes the call fail
\* with a TransportError carrying the status and the body, without waiting on
\* or taking anything from the Delivery Sink and without changing the session
\* id or the initialized flag.
C20_RefusedPostFails ==
    [][PostRefused
          => /\ cl'.pc = "idle"
             /\ ret'.kind = "TransportError"
             /\ Len(ret'.val) = 2 /\ ret'.val[1] \notin {"200", "202"}
             /\ ret'.val[2] = "response.text"
             /\ UNCHANGED <<response_queue, dequeued, timedOut, session_id,
                            initialized>>]_vars

\* C20 witness: call_tool has failed so while a message was in the sink, which
\* is still there.
C20_Witness ==
    /\ ret.op = "call_tool" /\ ret.kind = "TransportError" /\ cl.pc = "idle"
    /\ response_queue # <<>> /\ initialized

\* connect() ends in the step that begins it: the GET was not answered 200
GetRefused ==
    /\ cl.pc = "idle" /\ cl'.pc = "idle" /\ ncalls' = ncalls + 1
    /\ ret'.op = "connect"

\* C21: when the stream-opening GET is not answered with a success status,
\* connect() fails with ConnectionError before any reader is started, and the
\* session id, the initialized flag and the Delivery Sink are unchanged; a
\* connect() that goes on past the GET has opened a stream and started a reader.
C21_RefusedGetFails ==
    [][/\ GetRefused
          => /\ ret'.kind = "ConnectionError" /\ ret'.site = 106
             /\ UNCHANGED <<rd, nconn, sse_thread, sse_client, posts,
                            session_id, initialized, response_queue>>
       /\ (cl.pc = "idle" /\ cl'.op = "connect")
          => /\ nconn' = nconn + 1
             /\ rd[nconn'].pc = "none" /\ rd'[nconn'].pc = "start"]_vars

\* C21 witness: connect() has failed so on a fresh client: no stream, no
\* reader.
C21_Witness ==
    /\ ret.op = "connect" /\ ret.kind = "ConnectionError" /\ cl.pc = "idle"
    /\ nconn = 0 /\ \A r \in Readers : rd[r].pc = "none"

\* the error kinds an operation may fail with
DeclaredKinds ==
    {"ConnectionError", "TimeoutError", "ProtocolError", "OperationError",
     "StateError", "TransportError"}

\* C22: every operation either returns a value or fails with one of the
\* declared error kinds, whatever the reader has put on the Delivery Sink.
C22_OnlyDeclaredErrors == ret.kind \in {"none", "ok"} \cup DeclaredKinds

\* no reader is running and nothing is queued
SinkIsDead == response_queue = <<>> /\ \A r \in Readers : ~is_alive(r)

\* a reader leaves its loop because the stream ended or a read failed
ReaderExits(r) == rd[r].pc = "wait" /\ rd'[r].pc = "done" /\ ~stop_event

\* C23: once the reader has terminated, a caller waiting on the empty
\* Delivery Sink (one that was waiting already, or a later call whose POST was
\* acknowledged) ends with the response-wait timeout and with nothing else,
\* and the reader's exit changes neither the session id nor the initialized
\* flag.
C23_DeadStreamTimesOut ==
    /\ (cl.pc = "s_wait" /\ SinkIsDead)
          ~> (cl.pc = "idle" /\ ret.kind = "TimeoutError" /\ ret.site = 218)
    /\ [][(cl.pc = "s_wait" /\ SinkIsDead /\ cl' # cl)
             => cl'.pc = "idle" /\ ret'.kind = "TimeoutError"
                /\ ret'.site = 218]_vars
    /\ [][\A r \in Readers :
             ReaderExits(r) => UNCHANGED <<session_id, initialized,
                                          response_queue>>]_vars

\* C23 witness: the stream of a connected client ended, and a call made after
\* that was POSTed, acknowledged and timed out.
C23_Witness ==
    /\ ret.op \in Calls /\ ret.kind = "TimeoutError" /\ ret.site = 218
    /\ ret.req = 2 /\ ret.mark = 1
    /\ rd[1].pc = "done" /\ ~stop_event /\ initialized /\ Truthy(session_id)

\* the foreground thread is in a wait of its own (not in a request to the
\* server)
InOwnWait == cl.pc \in {"c_poll", "s_check", "s_wait", "i_set"}

\* C24: the session-id poll and the response wait are bounded: the poll ends
\* by a session id or by its timeout, the response wait by a dequeue or by
\* its timeout, so that connect() and every call go on to their POST or end.
C24_WaitsAreBounded ==
    /\ InOwnWait ~> (cl.pc \in {"idle", "s_post"})
    /\ [][(cl.pc = "c_poll" /\ cl' # cl)
             => \/ cl'.pc = "s_check" /\ Truthy(session_id)
                \/ /\ cl'.pc = "idle" /\ ret'.kind = "TimeoutError"
                   /\ ret'.site = 120]_vars
    /\ [][(cl.pc = "s_wait" /\ cl' # cl)
             => \/ Len(dequeued') = Len(dequeued) + 1
                \/ /\ cl'.pc = "idle" /\ ret'.kind = "TimeoutError"
                   /\ ret'.site = 218]_vars

\* C24 witness: connect() has ended by the timeout of its poll on a stream
\* that delivered nothing and is still open.
C24_Witness ==
    /\ ret.op = "connect" /\ ret.kind = "TimeoutError" /\ ret.site = 120
    /\ cl.pc = "idle" /\ nevents = 0 /\ rd[1].pc = "wait" /\ ~stop_event

\* call_tool dequeues an object without an 'error' key
CallToolDequeuesResult ==
    /\ cl.pc = "s_wait" /\ cl.op = "call_tool" /\ dequeued' # dequeued
    /\ QueueGet(response_queue).doc.obj /\ ~QueueGet(response_queue).doc.error

\* C25: on a response without an error payload call_tool returns the first
\* content item of the result and nothing of the further items; on an empty or
\* missing content sequence it fails and returns no value.
C25_FirstContentItem ==
    [][CallToolDequeuesResult
          => LET content == QueueGet(response_queue).doc.content
             IN  /\ cl'.pc = "idle"
                 /\ IF content # <<>>
                    THEN ret'.kind = "ok" /\ ret'.val = <<content[1]>>
                    ELSE ret'.kind = "ProtocolError" /\ ret'.val = <<>>]_vars

\* C25 witness: call_tool has returned 't1' of the content 't1', 't2'.
C25_Witness ==
    /\ ret.op = "call_tool" /\ ret.kind = "ok" /\ ret.val = <<"t1">>
    /\ cl.pc = "idle"

\* The value of the session-id parameter of a query string: the text from the
\* marker to the next parameter.
QueryValue(s) ==
    LET a == Find(s, Marker, 1)
        b == Find(s, Amp, a + 1)
        c == Find(s, Marker, a + 1)
    IN  SubSeq(s, a + 1, (IF b < c THEN b ELSE c) - 1)

\* the reader r ends the handling of an event
Handles(r) == rd[r].pc = "handle" /\ rd'[r].pc # "handle"

\* C26: the reader demultiplexes events by name: an endpoint event is never
\* put on the Delivery Sink and sets the session id to the value of its
\* session-id query parameter when the payload has that parameter (and leaves
\* it unchanged otherwise); a message event never changes the session id; an
\* event of another name or with an empty payload is not handled at all.
C26_DemultiplexByName ==
    [][\A r \in Readers :
          /\ Handles(r)
                => IF IsEndpoint(rd[r].ev)
                   THEN /\ response_queue' = response_queue
                        /\ session_id' =
                              IF Contains(Strip(rd[r].ev.data), Marker)
                              THEN Some(QueryValue(Strip(rd[r].ev.data)))
                              ELSE session_id
                   ELSE session_id' = session_id
          /\ (rd[r].pc = "wait" /\ rd'[r].pc = "handle")
                => IsEndpoint(rd'[r].ev) \/ IsMessage(rd'[r].ev)]_vars

\* C27: nothing is retried: a POST is made only by an invocation that has made
\* none yet, which then waits for the response or ends, and never comes back
\* to _send_request; a stream is opened (the GET of connect()) only in the step
\* that begins a connect(), so once per connect().
C27_NoRetry ==
    [][/\ Len(posts') # Len(posts)
          => /\ Len(posts') = Len(posts) + 1
             /\ cl.pc = "s_post" /\ cl.req = 0
             /\ posts'[Len(posts')].op = cl.op
             /\ \/ cl'.pc = "idle"
                \/ cl'.pc = "s_wait" /\ cl'.req = Len(posts')
       /\ (cl.req # 0 /\ cl'.pc # "idle")
          => cl'.req = cl.req /\ cl'.pc \in {"s_wait", "i_set"}
       /\ nconn' # nconn
          => /\ nconn' = nconn + 1
             /\ cl.pc = "idle" /\ cl'.pc = "c_poll" /\ cl'.op = "connect"]_vars

\* C27 witness: a call_tool whose response wait timed out has ended, and it is
\* its only POST that is on record (after the one of connect()).
C27_Witness ==
    /\ ret.op = "call_tool" /\ ret.kind = "TimeoutError" /\ ret.req = 2
    /\ cl.pc = "idle" /\ Len(posts) = 2 /\ nconn = 1

\* C28: after disconnect() a later connect() on the same client cannot
\* connect: its reader handles no event, so the session-id poll never sees a
\* session id, connect() fails with the timeout of the poll (or at its GET),
\* and the client is not initialized again.
C28_NoReconnectAfterDisconnect ==
    connect_since
        => /\ ~initialized
           /\ cl.op = "connect" => cl.pc = "c_poll" /\ rd[nconn].pc # "handle"
           /\ (cl.pc = "idle" /\ ret.op = "connect")
                 => \/ ret.kind = "TimeoutError" /\ ret.site = 120
                    \/ ret.kind = "ConnectionError"

\* C29: the reader tests the stop signal once per event, before handling it:
\* an event read while the signal is set ends the reader and is neither stored
\* nor queued, a reader only starts handling an event it read with the signal
\* unset, a reader that has ended stays ended, and the session id is stored
\* and the Delivery Sink written only by a reader that is handling an event.
C29_StopCheckedPerEvent ==
    [][/\ \A r \in Readers :
             /\ (rd[r].pc = "wait" /\ stop_event /\ rd'[r] # rd[r])
                   => /\ rd'[r].pc = "done"
                      /\ UNCHANGED <<session_id, response_queue, initialized>>
             /\ (rd[r].pc # "handle" /\ rd'[r].pc = "handle") => ~stop_event
             /\ rd[r].pc = "done" => rd'[r] = rd[r]
       /\ (npush' # npush \/ (session_id' # session_id /\ session_id' # None))
             => \E r \in Readers : rd[r].pc = "handle" /\ rd'[r].pc = "wait"]_vars

\* C29 witness: a reader has ended on a message it read with the stop signal
\* set, and nothing was queued for it.
C29_Witness ==
    \E r \in Readers : r \in dropped /\ rd[r].pc = "done" /\ npush = 0

\* C30: the session id an initialize POST carries was announced on the stream
\* opened by the connect() that makes the POST.
C30_HandshakeOnOwnSession ==
    \A i \in 1..Len(posts) :
        posts[i].op = "connect" => posts[i].by = posts[i].conn

====
